---- MODULE Spec2Model ----
(***************************************************************************)
(* Audio watermark codec of app.py: db_to_amplitude, add_watermark_samples *)
(* and remove_watermark_samples, driven by the /upload and /remove         *)
(* handlers.  A WAV file is the record the wave module exposes: sample     *)
(* rate, sample width in bytes, channel count and the raw PCM payload as a *)
(* sequence of bytes (whole frames, interleaved, little-endian).           *)
(***************************************************************************)
EXTENDS Integers, Sequences, FiniteSets, TLC

\* ---------------------------------------------------------------- bounds
\* Largest number of frames of freely chosen content in an input file.
MaxFrames == 2

\* db_to_amplitude is applied to every db in -MaxAtten..0.
MaxAtten == 120

\* ------------------------------------------------------ program constants
\* app.py:28
WATERMARK_SAMPLES == 16

\* app.py:27, the pattern the module is loaded with
ShippedDbValues ==
    << -90, -99, -90, -90, -99, -99, -90, -99,
       -90, -99, -90, -90, -99, -90, -99, -99 >>

VARIABLES
    DB_VALUES,      \* app.py:27, module global read by add_watermark_samples
    pc,             \* position of the current call inside the codec function
    op,             \* "insert" (add_watermark_samples) or "remove"
    wav_in,         \* the file at input_wav_path
    frames,         \* bytes returned by wav_in.readframes(n_frames)
    audio_data,     \* decoded array, a sequence of rows
    out_data,       \* watermarked_data / unwatermarked_data
    wav_out,        \* the file written at output_wav_path
    error,          \* which ValueError was raised, "none" if none
    status,         \* HTTP status of the last response, 0 before any
    body,           \* file sent back with the last response
    source_wav,     \* file the current input was produced from by /upload
    db,             \* argument of the db_to_amplitude call under study
    bit_depth,      \* argument of the db_to_amplitude call under study
    amplitude,      \* its return value, -1 while the call has not returned
    name_pc,        \* position of the request whose download is being named
    name_route,     \* "upload" or "remove"
    filename,       \* file.filename, a sequence of characters
    new_filename,   \* download_name passed to send_file
    name_status,    \* HTTP status of that request, 0 before any
    req,            \* per request thread: the locals of its handler
    tmp,            \* the temporary directory: path -> file, if any
    relations,      \* names of the relations that exist in the database
    Node_columns,   \* columns of "Node"
    Node_id_seq,    \* last value of the sequence behind "Node".id
    Node,           \* rows of "Node"
    Collective,     \* rows of "Collective"
    ArtistCollective, \* rows of "ArtistCollective"
    node_id_seq,    \* last value of the sequence behind node.id
    node,           \* rows of node
    artist,         \* rows of artist
    collective,     \* rows of collective
    mig_pc,         \* position of migrate_database
    collective_ids, \* local of migrate_database, read in Task 5
    nodes_response, \* what GET /api/nodes answered, status 0 if not called
    completed,      \* the scripts that have run to their end at least once
    connection_pool, \* db_config.py:16, module global: 0 for None or a pool
    pools,          \* every SimpleConnectionPool constructed so far
    worker          \* per thread: the locals of its db_config caller

vars == << DB_VALUES, pc, op, wav_in, frames, audio_data, out_data, wav_out,
           error, status, body, source_wav, db, bit_depth, amplitude,
           name_pc, name_route, filename, new_filename, name_status,
           req, tmp, relations, Node_columns, Node_id_seq, Node, Collective,
           ArtistCollective, node_id_seq, node, artist, collective, mig_pc,
           collective_ids, nodes_response, completed, connection_pool, pools,
           worker >>

codecVars == << pc, op, wav_in, frames, audio_data, out_data, wav_out,
                error, status, body, source_wav >>

ampVars == << db, bit_depth, amplitude >>

nameVars == << name_pc, name_route, filename, new_filename, name_status >>

concVars == << req, tmp >>

dbVars == << relations, Node_columns, Node_id_seq, Node, Collective,
             ArtistCollective, node_id_seq, node, artist, collective, mig_pc,
             collective_ids, nodes_response, completed >>

\* the variables no codec step and no db_to_amplitude call touches
poolVars == << connection_pool, pools, worker >>

otherVars == << nameVars, concVars, dbVars, poolVars >>

\* No file at a path (nothing written / nothing sent).
NoFile == [rate |-> 0, width |-> 0, channels |-> 0, data |-> <<>>]

\* ------------------------------------------------------------ amplitude
RECURSIVE Pow10(_)
Pow10(n) == IF n = 0 THEN 1 ELSE 10 * Pow10(n - 1)

\* floor(10^9 * 10^(-r/20)) for r = 0..19: the mantissa of 10 ** (db / 20.0)
LinearTable ==
    << 1000000000, 891250938, 794328234, 707945784, 630957344,
        562341325, 501187233, 446683592, 398107170, 354813389,
        316227766, 281838293, 251188643, 223872113, 199526231,
        177827941, 158489319, 141253754, 125892541, 112201845 >>

Digit(t, i) == (t \div Pow10(i)) % 10

\* floor(m * (t mod 10^(i+1)) / 10^i), digit by digit so that no
\* intermediate value leaves 32 bits
RECURSIVE MulShift(_, _, _)
MulShift(m, t, i) ==
    IF i = 0 THEN m * Digit(t, 0)
    ELSE (MulShift(m, t, i - 1) \div 10) + m * Digit(t, i)

\* linear * max_amplitude, truncated, where linear = 10 ** (d / 20.0)
\* = 10^(-q) * 10^(-r/20) with -d = 20 q + r
TruncScaled(d, max_amplitude) ==
    LET q == (-d) \div 20
        r == (-d) % 20
    IN  IF q > 9 THEN 0
        ELSE MulShift(max_amplitude, LinearTable[r + 1], 9) \div Pow10(q)

\* the same product rounded to the nearest integer instead of truncated
RoundScaled(d, max_amplitude) ==
    LET q == (-d) \div 20
        r == (-d) % 20
    IN  IF q > 8 THEN 0
        ELSE ((MulShift(2 * max_amplitude, LinearTable[r + 1], 9)
                 \div Pow10(q)) + 1) \div 2

db_to_amplitude_rounding(d, bits) ==
    LET max_amplitude == 2 ^ (bits - 1) - 1
    IN  RoundScaled(d, max_amplitude)

\* the exponent of ten rounded up instead of down
db_to_amplitude_ceil_exponent(d, bits) ==
    LET max_amplitude == 2 ^ (bits - 1) - 1
        q == ((-d) + 19) \div 20
        r == (-d) % 20
    IN  MulShift(max_amplitude, LinearTable[r + 1], 9) \div Pow10(q)

db_to_amplitude(d, bits) ==
    LET max_amplitude == 2 ^ (bits - 1) - 1
    IN  TruncScaled(d, max_amplitude)

\* ------------------------------------------------------------ numpy helpers
RECURSIVE Flatten(_)
Flatten(rows) ==
    IF rows = <<>> THEN <<>> ELSE Head(rows) \o Flatten(Tail(rows))

\* a.reshape(-1, cols) of a flat array whose size is a multiple of cols
Reshape(flat, cols) ==
    [i \in 1..(Len(flat) \div cols) |->
        SubSeq(flat, (i - 1) * cols + 1, i * cols)]

\* a[k:]
SliceFrom(rows, k) == SubSeq(rows, k + 1, Len(rows))

\* np.vstack([a, b])
VStack(a, b) == a \o b

\* np.frombuffer(frames, dtype=np.int16): little-endian two's complement
Int16Of(b0, b1) ==
    LET u == b0 + 256 * b1
    IN  IF u >= 32768 THEN u - 65536 ELSE u

FromBufferInt16(bytes) ==
    [i \in 1..(Len(bytes) \div 2) |-> Int16Of(bytes[2 * i - 1], bytes[2 * i])]

\* row.view(np.int32) of four bytes
ViewInt32(b) ==
    b[1] + 256 * b[2] + 65536 * b[3]
      + 16777216 * (IF b[4] >= 128 THEN b[4] - 256 ELSE b[4])

\* reshape(-1, 3), np.pad(..., ((0, 0), (0, 1))), view(np.int32) >> 8, flatten
Decode24SignExtended(bytes) ==
    [i \in 1..(Len(bytes) \div 3) |->
        ViewInt32(<<0>> \o SubSeq(bytes, 3 * i - 2, 3 * i)) \div 256]

Decode24(bytes) ==
    [i \in 1..(Len(bytes) \div 3) |->
        ViewInt32(SubSeq(bytes, 3 * i - 2, 3 * i) \o <<0>>) \div 256]

\* a.astype(np.int16).tobytes() of one sample
Int16BytesBigEndian(v) ==
    LET u == v % 65536
    IN  << u \div 256, u % 256 >>

Int16Bytes(v) ==
    LET u == v % 65536
    IN  << u % 256, u \div 256 >>

\* (v.astype(np.int32) << 8).tobytes() of one sample: the four
\* little-endian bytes of the shifted 32-bit value
UnshiftedBytes(v) ==
    << v % 256, (v \div 256) % 256, (v \div 65536) % 256, 0 >>

Shl8Bytes(v) ==
    << 0, v % 256, (v \div 256) % 256, (v \div 65536) % 256 >>

\* reshape(-1, 4)[:, 1:4] of one sample
Encode24Sample(v) == SubSeq(Shl8Bytes(v), 2, 4)

RECURSIVE ToBytes(_, _)
ToBytes(flat, width) ==
    IF flat = <<>> THEN <<>>
    ELSE (IF width = 2 THEN Int16Bytes(Head(flat))
          ELSE Encode24Sample(Head(flat)))
         \o ToBytes(Tail(flat), width)

\* ------------------------------------------------------------ codec stages
\* the two guards that open add_watermark_samples / remove_watermark_samples
ValidateAllowingAnyRate(f) ==
    IF f.width \notin {2, 3} THEN "width" ELSE "none"

ValidateAllowingAnyWidth(f) ==
    IF f.rate \notin {44100, 48000} THEN "rate" ELSE "none"

Validate(f) ==
    IF f.rate \notin {44100, 48000} THEN "rate"
    ELSE IF f.width \notin {2, 3} THEN "width"
    ELSE "none"

\* wav_in.getnframes(): whole frames held by the data chunk
NFrames(f) == Len(f.data) \div (f.width * f.channels)

\* wav_in.readframes(n_frames): the bytes of the whole frames, so a data
\* chunk that ends inside a frame loses its last partial frame
ReadFrames(f) == SubSeq(f.data, 1, NFrames(f) * f.width * f.channels)

\* bytes -> array; only a stereo file is reshaped to two columns, any other
\* channel count keeps the flat array (one sample per row)
Decode(bytes, width, channels) ==
    LET flat == IF width = 2 THEN FromBufferInt16(bytes) ELSE Decode24(bytes)
    IN  IF channels = 2 THEN Reshape(flat, 2) ELSE Reshape(flat, 1)

\* [db_to_amplitude(db, bit_depth) for db in DB_VALUES]
WatermarkSamples(pattern, width) ==
    [i \in 1..Len(pattern) |-> db_to_amplitude(pattern[i], width * 8)]

\* column_stack([w, w]) for stereo, reshape(-1, 1) otherwise
WatermarkReshapedLeftOnly(pattern, width, channels) ==
    LET w == WatermarkSamples(pattern, width)
    IN  [i \in 1..Len(w) |->
            IF channels = 2 THEN << w[i], 0 >> ELSE << w[i] >>]

WatermarkReshaped(pattern, width, channels) ==
    LET w == WatermarkSamples(pattern, width)
    IN  [i \in 1..Len(w) |->
            IF channels = 2 THEN << w[i], w[i] >> ELSE << w[i] >>]

\* watermarked_data = np.vstack([watermark_reshaped, audio_reshaped])
InsertOverwriting(pattern, width, channels, data) ==
    VStack(WatermarkReshaped(pattern, width, channels),
           SliceFrom(data, Len(pattern)))

InsertAppending(pattern, width, channels, data) ==
    VStack(data, WatermarkReshaped(pattern, width, channels))

InsertShippedMarker(pattern, width, channels, data) ==
    VStack(WatermarkReshaped(ShippedDbValues, width, channels), data)

Insert(pattern, width, channels, data) ==
    VStack(WatermarkReshaped(pattern, width, channels), data)

\* len(audio_data) < WATERMARK_SAMPLES
TooShortBySamples(data) == Len(Flatten(data)) < WATERMARK_SAMPLES

TooShort(data) == Len(data) < WATERMARK_SAMPLES

\* unwatermarked_data = audio_data[WATERMARK_SAMPLES:]
StripIfMarked(data) ==
    IF SubSeq(data, 1, WATERMARK_SAMPLES)
         = WatermarkReshaped(ShippedDbValues, 2, Len(Head(data)))
    THEN SliceFrom(data, WATERMARK_SAMPLES)
    ELSE data

Strip(data) == SliceFrom(data, WATERMARK_SAMPLES)

\* the file the wave writer leaves at output_wav_path
EncodeAt44100(f, data) ==
    [rate |-> 44100, width |-> f.width, channels |-> f.channels,
     data |-> ToBytes(Flatten(data), f.width)]

Encode(f, data) ==
    [rate |-> f.rate, width |-> f.width, channels |-> f.channels,
     data |-> ToBytes(Flatten(data), f.width)]

\* ------------------------------------------------------------ input files
Rates == {22050, 44100, 48000}
Widths == {1, 2, 3, 4}
ChannelCounts == {1, 2, 3}

\* three sample contents, as the bytes of one sample (first `width` bytes):
\* silence, a positive value with distinct bytes, a value with the sign bit set
UnitBytes == << <<0, 0, 0, 0>>, <<52, 18, 86, 7>>, <<255, 128, 254, 255>> >>

\* three frame contents, as the sample content of each channel
FrameIds == << <<1, 1, 1>>, <<2, 3, 1>>, <<3, 2, 2>> >>

FrameKinds == 1..3

RECURSIVE FrameBytes(_, _, _)
FrameBytes(kind, width, channels) ==
    IF channels = 0 THEN <<>>
    ELSE FrameBytes(kind, width, channels - 1)
         \o SubSeq(UnitBytes[FrameIds[kind][channels]], 1, width)

RECURSIVE Payload(_, _, _)
Payload(kinds, width, channels) ==
    IF kinds = <<>> THEN <<>>
    ELSE FrameBytes(Head(kinds), width, channels)
         \o Payload(Tail(kinds), width, channels)

KindSeqs(n) == UNION {[1..k -> FrameKinds] : k \in 0..n}

Repeat(kind, n) == [i \in 1..n |-> kind]

WavFile(rate, width, channels, kinds) ==
    [rate |-> rate, width |-> width, channels |-> channels,
     data |-> Payload(kinds, width, channels)]

\* files posted to /upload: up to MaxFrames frames of free content
UploadInputs ==
    {WavFile(r, w, c, ks) :
        r \in Rates, w \in Widths, c \in ChannelCounts,
        ks \in KindSeqs(MaxFrames)}

\* files posted to /remove that no /upload produced: a run of equal frames
\* of length 0, N-1 or N followed by up to MaxFrames frames of free content
HeadLens == {0, WATERMARK_SAMPLES - 1, WATERMARK_SAMPLES}

RemoveInputs ==
    {WavFile(r, w, c, Repeat(h, n) \o ks) :
        r \in Rates, w \in Widths, c \in ChannelCounts,
        h \in FrameKinds, n \in HeadLens, ks \in KindSeqs(MaxFrames)}

\* ------------------------------------------------------------ initial state
IdleCodec ==
    /\ pc = "idle"
    /\ op = "none"
    /\ wav_in = NoFile
    /\ frames = <<>>
    /\ audio_data = <<>>
    /\ out_data = <<>>
    /\ wav_out = NoFile
    /\ error = "none"
    /\ status = 0
    /\ body = NoFile
    /\ source_wav = NoFile

\* no request is being named
IdleName ==
    /\ name_pc = "idle"
    /\ name_route = "none"
    /\ filename = <<>>
    /\ new_filename = <<>>
    /\ name_status = 0

\* request threads of the server
Threads == {1, 2}

\* names tempfile.mkstemp can hand out
NumPaths == 4

Paths == 1..NumPaths

\* locals of a handler that has not been entered
IdleRequest ==
    [pc |-> "idle", op |-> "none", audio_part |-> FALSE, filename |-> <<>>,
     upload |-> NoFile, input_path |-> 0, output_path |-> 0,
     header |-> NoFile, audio_data |-> <<>>, out_data |-> <<>>,
     status |-> 0, body |-> NoFile, raised |-> "none"]

IdleConc ==
    /\ req = [t \in Threads |-> IdleRequest]
    /\ tmp = [p \in Paths |-> [exists |-> FALSE, file |-> NoFile]]

\* the 19 names init_db.py inserts
NodeNames ==
    << "Amara Okafor", "Chen Wei", "Priya Sharma", "Mohammed Al-Rashid",
       "Sofia Rodriguez", "Yuki Tanaka", "Fatima Hassan", "Lars Andersson",
       "Nadia Kozlov", "Kwame Mensah", "Isabella Costa", "Arjun Patel",
       "Leila Azizi", "Diego Martinez", "Aisha Diallo", "Kim Min-jun",
       "Zara Abadi", "Rafael Santos", "Mei Ling Wang" >>

\* rows with ids first..(first + Len(names) - 1), as a SERIAL column numbers
\* them, all of one node type ("" where the column is absent or NULL)
SerialRows(names, first, type) ==
    {[id |-> first + i - 1, name |-> names[i], nodeType |-> type] :
        i \in 1..Len(names)}

\* a database nothing was run on
FreshDatabase ==
    /\ relations = {}
    /\ Node_columns = {}
    /\ Node_id_seq = 0
    /\ Node = {}

\* the database the tests are written against: "Node" exists with the
\* columns id and name and holds the 19 names under the ids 1..19
DeployedDatabase ==
    /\ relations = {"Node"}
    /\ Node_columns = {"id", "name"}
    /\ Node_id_seq = Len(NodeNames)
    /\ Node = SerialRows(NodeNames, 1, "")

\* no script has run and /api/nodes was not called
IdleScripts ==
    /\ Collective = {}
    /\ ArtistCollective = {}
    /\ node_id_seq = 0
    /\ node = {}
    /\ artist = {}
    /\ collective = {}
    /\ mig_pc = "idle"
    /\ collective_ids = <<>>
    /\ nodes_response = [status |-> 0, nodes |-> <<>>]
    /\ completed = {}

\* pools that can be constructed before the model stops constructing more
MaxPools == 3

PoolIds == 1..MaxPools

\* a pool that was not constructed
NoPool == [made |-> FALSE, closed |-> FALSE, idle |-> {}, used |-> {}]

\* locals of a thread that is in no db_config caller; conn = <<0, 0>> is None
IdleWorker ==
    [pc |-> "idle", call |-> "none", conn |-> << 0, 0 >>, status |-> 0,
     put_to |-> 0, puts |-> 0]

\* the module as imported: connection_pool = None
IdlePool ==
    /\ connection_pool = 0
    /\ pools = [p \in PoolIds |-> NoPool]
    /\ worker = [t \in Threads |-> IdleWorker]

IdleOthers ==
    IdleName /\ IdleConc /\ FreshDatabase /\ IdleScripts /\ IdlePool

Init ==
    /\ DB_VALUES = ShippedDbValues
    /\ IdleCodec
    /\ IdleOthers
    /\ db = 0
    /\ bit_depth = 16
    /\ amplitude = -1

\* ------------------------------------------------------------ /upload
\* upload_file saves the posted file and calls add_watermark_samples
BeginCall(kind, f, src) ==
    /\ pc' = "validate"
    /\ op' = kind
    /\ wav_in' = f
    /\ source_wav' = src
    /\ frames' = <<>>
    /\ audio_data' = <<>>
    /\ out_data' = <<>>
    /\ wav_out' = NoFile
    /\ error' = "none"
    /\ status' = 0
    /\ body' = NoFile
    /\ UNCHANGED otherVars
    /\ UNCHANGED << DB_VALUES, db, bit_depth, amplitude >>

Upload(f) == pc = "idle" /\ BeginCall("insert", f, NoFile)

\* add_watermark_samples: header read and the two guards
AddValidate ==
    /\ pc = "validate"
    /\ op = "insert"
    /\ error' = Validate(wav_in)
    /\ pc' = IF Validate(wav_in) = "none" THEN "decode" ELSE "failed"
    /\ UNCHANGED otherVars
    /\ UNCHANGED << DB_VALUES, op, wav_in, frames, audio_data, out_data,
                    wav_out, status, body, source_wav, db, bit_depth,
                    amplitude >>

\* add_watermark_samples: readframes and conversion to an array
AddDecode ==
    /\ pc = "decode"
    /\ op = "insert"
    /\ frames' = ReadFrames(wav_in)
    /\ audio_data' = Decode(ReadFrames(wav_in), wav_in.width, wav_in.channels)
    /\ pc' = "transform"
    /\ UNCHANGED otherVars
    /\ UNCHANGED << DB_VALUES, op, wav_in, out_data, wav_out, error, status,
                    body, source_wav, db, bit_depth, amplitude >>

\* add_watermark_samples: marker construction and vstack
AddInsert ==
    /\ pc = "transform"
    /\ op = "insert"
    /\ out_data' = Insert(DB_VALUES, wav_in.width, wav_in.channels, audio_data)
    /\ pc' = "encode"
    /\ UNCHANGED otherVars
    /\ UNCHANGED << DB_VALUES, op, wav_in, frames, audio_data, wav_out, error,
                    status, body, source_wav, db, bit_depth, amplitude >>

\* add_watermark_samples: the output file is opened and written
AddEncode ==
    /\ pc = "encode"
    /\ op = "insert"
    /\ wav_out' = Encode(wav_in, out_data)
    /\ pc' = "done"
    /\ UNCHANGED otherVars
    /\ UNCHANGED << DB_VALUES, op, wav_in, frames, audio_data, out_data, error,
                    status, body, source_wav, db, bit_depth, amplitude >>

\* what a handler sends once the codec call returned or raised
RespondAlwaysOk ==
    /\ pc \in {"done", "failed"}
    /\ pc' = "responded"
    /\ status' = 200
    /\ body' = wav_out
    /\ UNCHANGED otherVars
    /\ UNCHANGED << DB_VALUES, op, wav_in, frames, audio_data, out_data,
                    wav_out, error, source_wav, db, bit_depth, amplitude >>

Respond ==
    /\ pc \in {"done", "failed"}
    /\ pc' = "responded"
    /\ status' = IF pc = "done" THEN 200 ELSE 500
    /\ body' = IF pc = "done" THEN wav_out ELSE NoFile
    /\ UNCHANGED otherVars
    /\ UNCHANGED << DB_VALUES, op, wav_in, frames, audio_data, out_data,
                    wav_out, error, source_wav, db, bit_depth, amplitude >>

UploadRespond == op = "insert" /\ Respond

\* the handler's finally block: both temporary files are removed and the
\* handler returns; nothing of the call is kept
Cleanup ==
    /\ pc = "responded"
    /\ pc' = "idle"
    /\ op' = "none"
    /\ wav_in' = NoFile
    /\ frames' = <<>>
    /\ audio_data' = <<>>
    /\ out_data' = <<>>
    /\ wav_out' = NoFile
    /\ error' = "none"
    /\ status' = 0
    /\ body' = NoFile
    /\ source_wav' = NoFile
    /\ UNCHANGED otherVars
    /\ UNCHANGED << DB_VALUES, db, bit_depth, amplitude >>

\* ------------------------------------------------------------ /remove
\* remove_watermark saves the posted file and calls remove_watermark_samples
RemovePosted(f) == pc = "idle" /\ BeginCall("remove", f, NoFile)

\* the client posts to /remove the file /upload has just returned
RemoveUploaded ==
    /\ pc = "responded"
    /\ op = "insert"
    /\ status = 200
    /\ BeginCall("remove", body, wav_in)

RemoveValidate ==
    /\ pc = "validate"
    /\ op = "remove"
    /\ error' = Validate(wav_in)
    /\ pc' = IF Validate(wav_in) = "none" THEN "decode" ELSE "failed"
    /\ UNCHANGED otherVars
    /\ UNCHANGED << DB_VALUES, op, wav_in, frames, audio_data, out_data,
                    wav_out, status, body, source_wav, db, bit_depth,
                    amplitude >>

RemoveDecode ==
    /\ pc = "decode"
    /\ op = "remove"
    /\ frames' = ReadFrames(wav_in)
    /\ audio_data' = Decode(ReadFrames(wav_in), wav_in.width, wav_in.channels)
    /\ pc' = "transform"
    /\ UNCHANGED otherVars
    /\ UNCHANGED << DB_VALUES, op, wav_in, out_data, wav_out, error, status,
                    body, source_wav, db, bit_depth, amplitude >>

\* remove_watermark_samples: length guard and slice
RemoveStrip ==
    /\ pc = "transform"
    /\ op = "remove"
    /\ IF TooShort(audio_data)
       THEN /\ error' = "length"
            /\ pc' = "failed"
            /\ UNCHANGED out_data
       ELSE /\ out_data' = Strip(audio_data)
            /\ pc' = "encode"
            /\ UNCHANGED error
    /\ UNCHANGED otherVars
    /\ UNCHANGED << DB_VALUES, op, wav_in, frames, audio_data, wav_out,
                    status, body, source_wav, db, bit_depth, amplitude >>

RemoveEncode ==
    /\ pc = "encode"
    /\ op = "remove"
    /\ wav_out' = Encode(wav_in, out_data)
    /\ pc' = "done"
    /\ UNCHANGED otherVars
    /\ UNCHANGED << DB_VALUES, op, wav_in, frames, audio_data, out_data, error,
                    status, body, source_wav, db, bit_depth, amplitude >>

RemoveRespond == op = "remove" /\ Respond

Next ==
    \/ \E f \in UploadInputs : Upload(f)
    \/ AddValidate
    \/ AddDecode
    \/ AddInsert
    \/ AddEncode
    \/ UploadRespond
    \/ \E f \in RemoveInputs : RemovePosted(f)
    \/ RemoveUploaded
    \/ RemoveValidate
    \/ RemoveDecode
    \/ RemoveStrip
    \/ RemoveEncode
    \/ RemoveRespond
    \/ Cleanup

Spec == Init /\ [][Next]_vars

\* ------------------------------------------------------------ db_to_amplitude
\* every call db_to_amplitude(db, bit_depth) with db in -MaxAtten..0
InitAmp ==
    /\ DB_VALUES = ShippedDbValues
    /\ IdleCodec
    /\ IdleOthers
    /\ db \in (0 - MaxAtten)..0
    /\ bit_depth \in {16, 24}
    /\ amplitude = -1

CallDbToAmplitude ==
    /\ amplitude = -1
    /\ amplitude' = db_to_amplitude(db, bit_depth)
    /\ UNCHANGED otherVars
    /\ UNCHANGED << DB_VALUES, codecVars, db, bit_depth >>

NextAmp == CallDbToAmplitude

SpecAmp == InitAmp /\ [][NextAmp]_vars

\* ============================================================ properties
\* a descriptor the data model calls valid
ValidDescriptor(f) ==
    /\ f.rate \in {44100, 48000}
    /\ f.width \in {2, 3}
    /\ f.channels \in {1, 2}

\* number of entries of the configured pattern
N == Len(DB_VALUES)

\* the call has passed its transform stage / has written its output file
Transformed == pc \in {"encode", "done"} \/ (pc = "responded" /\ status = 200)
Written == pc = "done" \/ (pc = "responded" /\ status = 200)

\* the sample of channel c of frame j of a 16-bit file, read off its payload
PayloadSample16(f, j, c) ==
    LET k == (j - 1) * f.channels + c
    IN  Int16Of(f.data[2 * k - 1], f.data[2 * k])

\* C1: for every valid descriptor and every sample buffer x, Insert followed
\* by Remove under the same pattern returns a buffer equal to x, frame for
\* frame: the array remove_watermark_samples keeps equals the array
\* add_watermark_samples decoded from the original file.
C1_RoundTripRestoresBuffer ==
    (/\ op = "remove"
     /\ source_wav # NoFile
     /\ ValidDescriptor(source_wav)
     /\ Transformed)
    => out_data = Decode(source_wav.data, source_wav.width,
                         source_wav.channels)

\* C2: for every valid descriptor and every input of L frames, L = 0
\* included, Insert succeeds and its output has exactly L + N frames, with
\* N = 16 as shipped.
C2_InsertAddsNFrames ==
    (op = "insert" /\ ValidDescriptor(wav_in) /\ pc \notin {"idle", "validate"})
    => /\ pc # "failed"
       /\ error = "none"
       /\ N = 16
       /\ Transformed => Len(out_data) = NFrames(wav_in) + N
       /\ Written => NFrames(wav_out) = NFrames(wav_in) + N
       /\ pc = "responded" => status = 200 /\ NFrames(body) = NFrames(wav_in) + N

C2_Witness ==
    /\ op = "insert"
    /\ ValidDescriptor(wav_in)
    /\ pc = "done"
    /\ NFrames(wav_in) = 0
    /\ NFrames(wav_out) = 16

\* C3: in the buffer Insert produces, frame i (0 <= i < N) carries
\* amplitude(pattern[i], bit depth) in every channel, and frame N + j is
\* input frame j, in the original order and with every sample in its channel.
C3_MarkerThenOriginalFrames ==
    (op = "insert" /\ ValidDescriptor(wav_in) /\ Transformed)
    => /\ \A i \in 1..N :
            out_data[i] = [c \in 1..wav_in.channels |->
                              db_to_amplitude(DB_VALUES[i], wav_in.width * 8)]
       /\ Len(audio_data) = NFrames(wav_in)
       /\ \A j \in 1..NFrames(wav_in) :
            /\ out_data[N + j] = audio_data[j]
            /\ Len(audio_data[j]) = wav_in.channels
            /\ wav_in.width = 2 =>
                 \A c \in 1..wav_in.channels :
                    out_data[N + j][c] = PayloadSample16(wav_in, j, c)

C3_Witness ==
    /\ op = "insert"
    /\ pc = "encode"
    /\ wav_in.width = 2
    /\ wav_in.channels = 2
    /\ NFrames(wav_in) = 2
    /\ out_data[1] = <<1, 1>>
    /\ out_data[2] = <<0, 0>>
    /\ out_data[17] = <<4660, -32513>>
    /\ out_data[18] = <<-32513, 4660>>

\* C4: Remove returns exactly the input frames from index N onward, in
\* order, so L - N frames for an input of L >= N frames, whatever the first
\* N frames hold.
C4_RemoveDropsFirstN ==
    (op = "remove" /\ ValidDescriptor(wav_in) /\ Transformed)
    => /\ NFrames(wav_in) >= N
       /\ Len(out_data) = NFrames(wav_in) - N
       /\ \A j \in 1..Len(out_data) : out_data[j] = audio_data[N + j]
       /\ wav_in.width = 2 =>
            \A j \in 1..Len(out_data) : \A c \in 1..wav_in.channels :
                out_data[j][c] = PayloadSample16(wav_in, N + j, c)

\* a /remove input whose first N frames are not the marker
C4_Witness ==
    /\ op = "remove"
    /\ ValidDescriptor(wav_in)
    /\ pc = "done"
    /\ source_wav = NoFile
    /\ SubSeq(audio_data, 1, N)
         # WatermarkReshaped(DB_VALUES, wav_in.width, wav_in.channels)
    /\ Len(out_data) = 2
    /\ out_data[1] # out_data[2]

\* C5: Remove fails with the insufficient-length error exactly when the
\* decoded buffer has fewer than N frames, counted in frames for mono and
\* stereo alike; exactly N frames succeed with an empty result; on failure
\* no output is produced.
C5_LengthErrorIffFewerThanNFrames ==
    (/\ op = "remove"
     /\ ValidDescriptor(wav_in)
     /\ pc \in {"encode", "done", "failed", "responded"})
    => /\ error = "length" <=> NFrames(wav_in) < N
       /\ error = "length" =>
            /\ pc \in {"failed", "responded"}
            /\ out_data = <<>>
            /\ wav_out = NoFile
            /\ body = NoFile
       /\ NFrames(wav_in) = N =>
            /\ error = "none"
            /\ out_data = <<>>
            /\ Written => (wav_out # NoFile /\ wav_out.data = <<>>)

\* a stereo buffer of N - 1 frames (2N - 2 samples) is refused
C5_Witness ==
    /\ op = "remove"
    /\ ValidDescriptor(wav_in)
    /\ wav_in.channels = 2
    /\ NFrames(wav_in) = N - 1
    /\ Len(Flatten(audio_data)) >= N
    /\ pc = "failed"
    /\ error = "length"

\* C6: validation rejects a descriptor exactly when its sample rate is not
\* 44100 or 48000 or its sample width is not 2 or 3 bytes; 22050 Hz and
\* 1-byte samples are rejected, every other descriptor is accepted.
C6_RejectsIffRateOrWidthUnsupported ==
    (pc \notin {"idle", "validate"})
    => /\ error \in {"rate", "width"}
            <=> (wav_in.rate \notin {44100, 48000} \/ wav_in.width \notin {2, 3})
       /\ wav_in.rate = 22050 => error = "rate"
       /\ (wav_in.rate # 22050 /\ wav_in.width = 1) => error = "width"

C6_Witness ==
    /\ pc = "failed"
    /\ wav_in.rate = 48000
    /\ wav_in.width = 1
    /\ error = "width"

\* C7: the descriptor is validated before the payload is read or decoded:
\* nothing is read while validation is pending, and after a rejection no
\* decode, strip or encode has run; Remove on an invalid descriptor reports
\* the descriptor error even when the buffer has fewer than N frames.
C7_ValidatedBeforePayloadIsRead ==
    /\ pc = "validate" =>
         (frames = <<>> /\ audio_data = <<>> /\ out_data = <<>>
            /\ wav_out = NoFile)
    /\ (pc \notin {"idle", "validate"}
          /\ (wav_in.rate \notin {44100, 48000} \/ wav_in.width \notin {2, 3}))
       => /\ error \in {"rate", "width"}
          /\ pc \in {"failed", "responded"}
          /\ frames = <<>>
          /\ audio_data = <<>>
          /\ out_data = <<>>
          /\ wav_out = NoFile

C7_Witness ==
    /\ op = "remove"
    /\ pc = "failed"
    /\ wav_in.rate = 22050
    /\ wav_in.width = 2
    /\ wav_in.data # <<>>
    /\ NFrames(wav_in) < N
    /\ error = "rate"
    /\ frames = <<>>

\* C8: the pipeline runs Validate, Decode, Insert or Remove, Encode in that
\* order, each at most once per call and each exactly once in a call that
\* succeeds; a failing stage ends the call: no later stage runs, no output
\* file is written, and the handler answers 500 without a file.
StageOrder ==
    { <<"idle", "validate">>, <<"validate", "decode">>,
      <<"decode", "transform">>, <<"transform", "encode">>,
      <<"encode", "done">>, <<"done", "responded">>,
      <<"validate", "failed">>, <<"transform", "failed">>,
      <<"failed", "responded">>, <<"responded", "idle">>,
      <<"responded", "validate">> }

C8_LinearPipelineTerminalOnFailure ==
    [][ /\ << pc, pc' >> \in StageOrder
        /\ frames' # frames => (pc = "decode" \/ pc' \in {"idle", "validate"})
        /\ audio_data' # audio_data
             => (pc = "decode" \/ pc' \in {"idle", "validate"})
        /\ out_data' # out_data
             => (<< pc, pc' >> = << "transform", "encode" >>
                   \/ pc' \in {"idle", "validate"})
        /\ wav_out' # wav_out
             => (pc = "encode" \/ pc' \in {"idle", "validate"})
        /\ pc' = "failed" => (error' # "none" /\ wav_out' = NoFile)
        /\ pc = "failed" =>
             (status' = 500 /\ body' = NoFile /\ wav_out' = NoFile)
        /\ status' = 200 => (error' = "none" /\ body' = wav_out')
      ]_vars

\* Remove refused after Validate and Decode ran; the caller got a 500
C8_Witness ==
    /\ op = "remove"
    /\ pc = "responded"
    /\ error = "length"
    /\ audio_data # <<>>
    /\ wav_out = NoFile
    /\ status = 500
    /\ body = NoFile

\* C9: every marker frame Insert builds for a stereo buffer has the same
\* value in the left and in the right channel, in the array and in the
\* bytes written.
C9_StereoMarkerChannelsEqual ==
    (op = "insert" /\ wav_in.channels = 2 /\ Transformed)
    => /\ \A i \in 1..N :
            Len(out_data[i]) = 2 /\ out_data[i][1] = out_data[i][2]
       /\ Written =>
            \A i \in 1..N :
                LET w == wav_in.width
                    at == (i - 1) * 2 * w
                IN  SubSeq(wav_out.data, at + 1, at + w)
                      = SubSeq(wav_out.data, at + w + 1, at + 2 * w)

C9_Witness ==
    /\ op = "insert"
    /\ pc = "done"
    /\ wav_in.channels = 2
    /\ wav_in.width = 3
    /\ out_data[1] = <<265, 265>>
    /\ SubSeq(wav_out.data, 1, 6) = <<9, 1, 0, 9, 1, 0>>

\* Exact natural numbers as little-endian sequences of base-1000 limbs,
\* to compare 20th powers without leaving 32-bit arithmetic.
RECURSIVE BigTrim(_)
BigTrim(a) ==
    IF a = <<>> THEN <<>>
    ELSE IF a[Len(a)] = 0 THEN BigTrim(SubSeq(a, 1, Len(a) - 1))
    ELSE a

BigOf(n) ==
    BigTrim(<< n % 1000, (n \div 1000) % 1000, (n \div 1000000) % 1000,
               n \div 1000000000 >>)

RECURSIVE BigConv(_, _, _, _)
BigConv(a, b, k, i) ==
    IF i = 0 THEN 0
    ELSE BigConv(a, b, k, i - 1)
         + (IF k - i + 1 \in 1..Len(b) THEN a[i] * b[k - i + 1] ELSE 0)

RECURSIVE BigCarry(_, _)
BigCarry(a, c) ==
    IF a = <<>> THEN (IF c = 0 THEN <<>>
                      ELSE << c % 1000 >> \o BigCarry(<<>>, c \div 1000))
    ELSE << (Head(a) + c) % 1000 >>
         \o BigCarry(Tail(a), (Head(a) + c) \div 1000)

BigMul(a, b) ==
    IF a = <<>> \/ b = <<>> THEN <<>>
    ELSE BigTrim(BigCarry([k \in 1..(Len(a) + Len(b) - 1) |->
                              BigConv(a, b, k, Len(a))], 0))

BigPow20(a) ==
    LET a2 == BigMul(a, a)
        a4 == BigMul(a2, a2)
        a5 == BigMul(a4, a)
        a10 == BigMul(a5, a5)
    IN  BigMul(a10, a10)

\* 10^e
BigPow10(e) ==
    [i \in 1..(e \div 3 + 1) |-> IF i = e \div 3 + 1 THEN Pow10(e % 3) ELSE 0]

\* a < b, both trimmed
RECURSIVE BigLessFrom(_, _, _)
BigLessFrom(a, b, i) ==
    IF i = 0 THEN FALSE
    ELSE IF a[i] # b[i] THEN a[i] < b[i]
    ELSE BigLessFrom(a, b, i - 1)

BigLess(a, b) ==
    IF Len(a) # Len(b) THEN Len(a) < Len(b) ELSE BigLessFrom(a, b, Len(a))

\* C10: amplitude(db, bits) is 10^(db/20) * (2^(bits-1) - 1) truncated
\* toward zero, that is the integer a with
\* a^20 * 10^(-db) <= max^20 < (a+1)^20 * 10^(-db); it is 1 and 0 at 16
\* bits, 265 and 94 at 24 bits for -90 dB and -99 dB.
MaxAmplitude == 2 ^ (bit_depth - 1) - 1

C10_AmplitudeIsTruncatedProduct ==
    (amplitude # -1)
    => /\ amplitude >= 0
       /\ (db = -90 /\ bit_depth = 16) => amplitude = 1
       /\ (db = -99 /\ bit_depth = 16) => amplitude = 0
       /\ (db = -90 /\ bit_depth = 24) => amplitude = 265
       /\ (db = -99 /\ bit_depth = 24) => amplitude = 94
       /\ LET max20 == BigPow20(BigOf(MaxAmplitude))
              scale == BigPow10(0 - db)
              low == BigMul(BigPow20(BigOf(amplitude)), scale)
              high == BigMul(BigPow20(BigOf(amplitude + 1)), scale)
          IN  ~BigLess(max20, low) /\ BigLess(max20, high)

C10_Witness ==
    /\ db = -90
    /\ bit_depth = 24
    /\ amplitude = 265

\* C11: for a fixed bit depth amplitude(db, depth) is monotonically
\* non-decreasing in db: the value returned for db is at most the value of
\* every db2 >= db.
C11_AmplitudeMonotoneInDb ==
    (amplitude # -1)
    => \A d2 \in db..0 : amplitude <= db_to_amplitude(d2, bit_depth)

C11_Witness ==
    /\ db = -99
    /\ bit_depth = 24
    /\ amplitude = 94
    /\ amplitude < db_to_amplitude(-90, 24)

\* C12: on the 16-bit path encode is the exact inverse of decode: the bytes
\* written for the decoded frames are the bytes read, in the same
\* interleaved order, for mono and stereo.
FrameSize(f) == f.width * f.channels

C12_Encode16InvertsDecode ==
    (ValidDescriptor(wav_in) /\ wav_in.width = 2)
    => /\ pc \in {"transform", "encode", "done"} =>
            ToBytes(Flatten(audio_data), 2) = wav_in.data
       /\ (op = "insert" /\ Written) =>
            SliceFrom(wav_out.data, N * FrameSize(wav_in)) = wav_in.data
       /\ (op = "remove" /\ Written) =>
            wav_out.data = SliceFrom(wav_in.data, N * FrameSize(wav_in))

C12_Witness ==
    /\ op = "insert"
    /\ pc = "done"
    /\ wav_in.width = 2
    /\ wav_in.channels = 2
    /\ wav_in.data = <<52, 18, 255, 128, 255, 128, 52, 18>>
    /\ audio_data = << <<4660, -32513>>, <<-32513, 4660>> >>
    /\ SliceFrom(wav_out.data, 64) = wav_in.data

\* C14: every descriptor on which Insert or Remove produces output has a
\* sample rate in the allow-list, a bit depth of 16 or 24 and one or two
\* channels; a file with another channel count is never transformed.
C14_OutputOnlyForMonoOrStereo ==
    Written
    => /\ wav_in.rate \in {44100, 48000}
       /\ wav_in.width * 8 \in {16, 24}
       /\ wav_in.channels \in {1, 2}

\* C15: Insert and Remove leave the descriptor unchanged: the output file
\* has the sample rate, sample width and channel count of the input, and
\* only the payload differs.
C15_DescriptorUnchanged ==
    Written
    => /\ wav_out.rate = wav_in.rate
       /\ wav_out.width = wav_in.width
       /\ wav_out.channels = wav_in.channels
       /\ wav_out.data # wav_in.data
       /\ pc = "responded" => body = wav_out

C15_Witness ==
    /\ op = "remove"
    /\ pc = "done"
    /\ wav_in.rate = 48000
    /\ wav_in.width = 3
    /\ wav_in.channels = 2
    /\ wav_out.rate = 48000
    /\ wav_out.width = 3
    /\ wav_out.channels = 2
    /\ wav_out.data # <<>>

\* C18: every file /upload returns with status 200 is accepted by /remove:
\* posting it to /remove gives status 200 and a file, never the
\* insufficient-length or a format error.
C18_UploadedFileIsRemovable ==
    (op = "remove" /\ source_wav # NoFile /\ pc \in {"failed", "responded"})
    => /\ pc = "responded"
       /\ status = 200
       /\ error = "none"
       /\ body # NoFile

\* ------------------------------------------------------------ configuration
\* length of the shorter pattern a deployment may configure
ShortPatternLen == 10

\* the pattern test_add_remove_add_different_watermark assigns to DB_VALUES
AlternateDbValues ==
    << -99, -90, -99, -90, -90, -90, -99, -90,
       -99, -90, -99, -90, -90, -99, -90, -99 >>

\* patterns the module global DB_VALUES may be rebound to
Patterns ==
    {ShippedDbValues, AlternateDbValues,
     SubSeq(ShippedDbValues, 1, ShortPatternLen)}

\* app.DB_VALUES = p, between two calls; WATERMARK_SAMPLES is a separate
\* global and is not touched by the assignment
ReplacePattern(p) ==
    /\ pc = "idle"
    /\ p # DB_VALUES
    /\ DB_VALUES' = p
    /\ UNCHANGED << otherVars, codecVars, ampVars >>

NextConfig ==
    \/ \E p \in Patterns : ReplacePattern(p)
    \/ \E f \in UploadInputs : Upload(f)
    \/ AddValidate
    \/ AddDecode
    \/ AddInsert
    \/ AddEncode
    \/ UploadRespond
    \/ \E f \in RemoveInputs : RemovePosted(f)
    \/ RemoveUploaded
    \/ RemoveValidate
    \/ RemoveDecode
    \/ RemoveStrip
    \/ RemoveEncode
    \/ RemoveRespond
    \/ Cleanup

SpecConfig == Init /\ [][NextConfig]_vars

\* C13: under every configured pattern, also one of another length, the
\* number of frames Remove strips equals the pattern's length, which is the
\* number of frames Insert prepends under that configuration
C13_StripCountEqualsPatternLength ==
    (Transformed /\ wav_in.channels \in {1, 2})
    => /\ op = "insert" => Len(out_data) - Len(audio_data) = Len(DB_VALUES)
       /\ op = "remove" => Len(audio_data) - Len(out_data) = Len(DB_VALUES)

\* ------------------------------------------------------------ download name
\* longest part of a posted filename in front of its ending
MaxStemLen == 3

\* characters a posted filename is built from
StemChars == {"a", "."}

Stems == UNION {[1..k -> StemChars] : k \in 0..MaxStemLen}

\* endings of posted filenames, in several spellings
Endings ==
    { <<".", "w", "a", "v">>, <<".", "W", "A", "V">>, <<".", "W", "a", "v">>,
      <<".", "m", "p", "3">>, <<"w", "a", "v">>, <<>> }

Filenames == {s \o e : s \in Stems, e \in Endings}

\* str.lower() on one character of the alphabet above
LowerChar(ch) ==
    CASE ch = "W" -> "w"
      [] ch = "A" -> "a"
      [] ch = "V" -> "v"
      [] OTHER -> ch

Lower(s) == [i \in 1..Len(s) |-> LowerChar(s[i])]

\* str.endswith
EndsWith(s, suffix) ==
    /\ Len(s) >= Len(suffix)
    /\ SubSeq(s, Len(s) - Len(suffix) + 1, Len(s)) = suffix

DotWav == <<".", "w", "a", "v">>

\* position of the first / last '.', 0 if there is none
FirstDot(s) ==
    IF \E i \in 1..Len(s) : s[i] = "."
    THEN CHOOSE i \in 1..Len(s) :
             s[i] = "." /\ \A j \in 1..(i - 1) : s[j] # "."
    ELSE 0

LastDot(s) ==
    IF \E i \in 1..Len(s) : s[i] = "."
    THEN CHOOSE i \in 1..Len(s) :
             s[i] = "." /\ \A j \in (i + 1)..Len(s) : s[j] # "."
    ELSE 0

\* the parts on both sides of the separator at position d, or the whole
\* string as the only part if there is no separator
PartsAt(s, d) ==
    IF d = 0 THEN << s >>
    ELSE << SubSeq(s, 1, d - 1), SubSeq(s, d + 1, Len(s)) >>

Split1(s) == PartsAt(s, FirstDot(s))

\* original_filename.rsplit('.', 1)
RSplit1(s) == PartsAt(s, LastDot(s))

\* the tag each route puts into the name
Tag(route) ==
    IF route = "upload" THEN <<"-", "-", "W", "M">>
    ELSE <<"-", "-", "N", "W", "M">>

\* f"{base_name}--WM.{extension}" or f"{original_filename}--WM"
NewFilename(route, original_filename) ==
    LET name_parts == RSplit1(original_filename)
    IN  IF Len(name_parts) = 2
        THEN name_parts[1] \o Tag(route) \o <<".">> \o name_parts[2]
        ELSE original_filename \o Tag(route)

\* a file named fn is posted to /upload or /remove
PostNamed(route, fn) ==
    /\ name_pc = "idle"
    /\ name_pc' = "check"
    /\ name_route' = route
    /\ filename' = fn
    /\ new_filename' = <<>>
    /\ name_status' = 0
    /\ UNCHANGED poolVars
    /\ UNCHANGED << DB_VALUES, codecVars, ampVars, concVars, dbVars >>

\* the handler's checks on file.filename, in front of any processing
CheckFilename ==
    /\ name_pc = "check"
    /\ IF filename = <<>> \/ ~EndsWith(Lower(filename), DotWav)
       THEN name_pc' = "responded" /\ name_status' = 400
       ELSE name_pc' = "process" /\ name_status' = 0
    /\ UNCHANGED << name_route, filename, new_filename >>
    /\ UNCHANGED poolVars
    /\ UNCHANGED << DB_VALUES, codecVars, ampVars, concVars, dbVars >>

\* the codec call of the handler either returns or raises; on an exception
\* the handler answers 500 without naming a download
ProcessNamed(ok) ==
    /\ name_pc = "process"
    /\ IF ok
       THEN name_pc' = "name" /\ name_status' = 0
       ELSE name_pc' = "responded" /\ name_status' = 500
    /\ UNCHANGED << name_route, filename, new_filename >>
    /\ UNCHANGED poolVars
    /\ UNCHANGED << DB_VALUES, codecVars, ampVars, concVars, dbVars >>

\* the download name is built and the file is sent
NameDownload ==
    /\ name_pc = "name"
    /\ new_filename' = NewFilename(name_route, filename)
    /\ name_status' = 200
    /\ name_pc' = "responded"
    /\ UNCHANGED << name_route, filename >>
    /\ UNCHANGED poolVars
    /\ UNCHANGED << DB_VALUES, codecVars, ampVars, concVars, dbVars >>

\* the handler returns
ReturnNamed ==
    /\ name_pc = "responded"
    /\ name_pc' = "idle"
    /\ name_route' = "none"
    /\ filename' = <<>>
    /\ new_filename' = <<>>
    /\ name_status' = 0
    /\ UNCHANGED poolVars
    /\ UNCHANGED << DB_VALUES, codecVars, ampVars, concVars, dbVars >>

NextName ==
    \/ \E route \in {"upload", "remove"}, fn \in Filenames :
           PostNamed(route, fn)
    \/ CheckFilename
    \/ \E ok \in BOOLEAN : ProcessNamed(ok)
    \/ NameDownload
    \/ ReturnNamed

SpecName == Init /\ [][NextName]_vars

\* C17: for a filename that ends in .wav (in any case) the download is named by putting
\* --WM (on /upload) or --NWM (on /remove) immediately before the last dot:
\* all that precedes the last dot, other dots included, and the extension
\* are kept as they were
C17_TagBeforeLastDot ==
    (name_status = 200 /\ EndsWith(Lower(filename), DotWav))
    => LET n == Len(filename)
       IN  /\ new_filename =
                  SubSeq(filename, 1, n - 4)
                  \o (IF name_route = "upload"
                      THEN <<"-", "-", "W", "M">>
                      ELSE <<"-", "-", "N", "W", "M">>)
                  \o SubSeq(filename, n - 3, n)
           /\ filename[n - 3] = "."
           /\ \A i \in (n - 2)..n : filename[i] # "."

C17_Witness ==
    /\ name_status = 200
    /\ name_route = "remove"
    /\ filename = <<"a", ".", "a", ".", "w", "a", "v">>
    /\ new_filename =
           <<"a", ".", "a", "-", "-", "N", "W", "M", ".", "w", "a", "v">>

\* ------------------------------------------------------------ concurrency
\* requests the threads serve: an Insert and a Remove that succeed, a Remove
\* of a file shorter than the marker and an Insert of a file with an
\* unsupported rate
ConcRequests ==
    { << "insert", WavFile(44100, 2, 1, <<2>>) >>,
      << "remove", WavFile(48000, 3, 2, Repeat(3, WATERMARK_SAMPLES) \o <<2>>) >>,
      << "remove", WavFile(44100, 2, 1, <<2>>) >>,
      << "insert", WavFile(22050, 2, 1, <<3>>) >> }

\* tempfile.mkstemp creates its file with O_EXCL: only a name that no
\* existing file has can be returned
PathsIgnoringExistence(dir) == Paths

FreePaths(dir) == {p \in Paths : ~dir[p].exists}

\* the header fields wave.open reads
Header(f) ==
    [rate |-> f.rate, width |-> f.width, channels |-> f.channels,
     data |-> <<>>]

\* what one handler call answers for the posted file f when nothing else
\* runs: the status and the file sent
Alone(kind, pattern, f) ==
    LET data == Decode(ReadFrames(f), f.width, f.channels)
    IN  IF Validate(f) # "none" THEN [status |-> 500, body |-> NoFile]
        ELSE IF kind = "insert"
        THEN [status |-> 200,
              body |-> Encode(f, Insert(pattern, f.width, f.channels, data))]
        ELSE IF TooShort(data) THEN [status |-> 500, body |-> NoFile]
        ELSE [status |-> 200, body |-> Encode(f, Strip(data))]

\* thread t is entered with a posted file and creates its input file
MkstempInput(t, kind, f) ==
    /\ req[t].pc = "idle"
    /\ \E p \in FreePaths(tmp) :
        /\ tmp' = [tmp EXCEPT ![p] = [exists |-> TRUE, file |-> NoFile]]
        /\ req' = [req EXCEPT ![t] =
                      [IdleRequest EXCEPT !.pc = "mkstemp", !.op = kind,
                                          !.upload = f, !.input_path = p]]
    /\ UNCHANGED poolVars
    /\ UNCHANGED << DB_VALUES, codecVars, ampVars, nameVars, dbVars >>

MkstempOutput(t) ==
    /\ req[t].pc = "mkstemp"
    /\ \E p \in FreePaths(tmp) :
        /\ tmp' = [tmp EXCEPT ![p] = [exists |-> TRUE, file |-> NoFile]]
        /\ req' = [req EXCEPT ![t].pc = "save", ![t].output_path = p]
    /\ UNCHANGED poolVars
    /\ UNCHANGED << DB_VALUES, codecVars, ampVars, nameVars, dbVars >>

\* file.save(input_path)
SaveUpload(t) ==
    /\ req[t].pc = "save"
    /\ tmp' = [tmp EXCEPT ![req[t].input_path] =
                  [exists |-> TRUE, file |-> req[t].upload]]
    /\ req' = [req EXCEPT ![t].pc = "open"]
    /\ UNCHANGED poolVars
    /\ UNCHANGED << DB_VALUES, codecVars, ampVars, nameVars, dbVars >>

\* wave.open(input_wav_path, 'rb') and the two guards; a missing or empty
\* file raises like an unsupported one
OpenInput(t) ==
    /\ req[t].pc = "open"
    /\ LET at == tmp[req[t].input_path]
       IN  IF at.exists /\ Validate(at.file) = "none"
           THEN req' = [req EXCEPT ![t].pc = "read",
                                   ![t].header = Header(at.file)]
           ELSE req' = [req EXCEPT ![t].pc = "cleanup", ![t].status = 500]
    /\ UNCHANGED poolVars
    /\ UNCHANGED << DB_VALUES, codecVars, ampVars, nameVars, dbVars, tmp >>

\* readframes on the open file and conversion to an array
ReadInput(t) ==
    /\ req[t].pc = "read"
    /\ LET h == req[t].header
           f == [h EXCEPT !.data = tmp[req[t].input_path].file.data]
       IN  req' = [req EXCEPT
                      ![t].pc = "transform",
                      ![t].audio_data = Decode(ReadFrames(f), h.width,
                                               h.channels)]
    /\ UNCHANGED poolVars
    /\ UNCHANGED << DB_VALUES, codecVars, ampVars, nameVars, dbVars, tmp >>

\* the marker is built from DB_VALUES and stacked, or the head is sliced off
TransformLocal(t) ==
    /\ req[t].pc = "transform"
    /\ LET h == req[t].header
           a == req[t].audio_data
       IN  IF req[t].op = "insert"
           THEN req' = [req EXCEPT
                           ![t].pc = "write",
                           ![t].out_data = Insert(DB_VALUES, h.width,
                                                  h.channels, a)]
           ELSE IF TooShort(a)
           THEN req' = [req EXCEPT ![t].pc = "cleanup", ![t].status = 500]
           ELSE req' = [req EXCEPT ![t].pc = "write",
                                   ![t].out_data = Strip(a)]
    /\ UNCHANGED poolVars
    /\ UNCHANGED << DB_VALUES, codecVars, ampVars, nameVars, dbVars, tmp >>

\* wave.open(output_wav_path, 'wb') ... writeframes
WriteOutput(t) ==
    /\ req[t].pc = "write"
    /\ tmp' = [tmp EXCEPT ![req[t].output_path] =
                  [exists |-> TRUE,
                   file |-> Encode(req[t].header, req[t].out_data)]]
    /\ req' = [req EXCEPT ![t].pc = "readback"]
    /\ UNCHANGED poolVars
    /\ UNCHANGED << DB_VALUES, codecVars, ampVars, nameVars, dbVars >>

\* open(output_path, 'rb').read() into memory; the response is built
ReadBack(t) ==
    /\ req[t].pc = "readback"
    /\ LET at == tmp[req[t].output_path]
       IN  IF at.exists
           THEN req' = [req EXCEPT ![t].pc = "cleanup", ![t].status = 200,
                                   ![t].body = at.file]
           ELSE req' = [req EXCEPT ![t].pc = "cleanup", ![t].status = 500]
    /\ UNCHANGED poolVars
    /\ UNCHANGED << DB_VALUES, codecVars, ampVars, nameVars, dbVars, tmp >>

\* finally: os.remove(input_path), then os.remove(output_path)
RemoveInputFile(t) ==
    /\ req[t].pc = "cleanup"
    /\ tmp' = [tmp EXCEPT ![req[t].input_path] =
                  [exists |-> FALSE, file |-> NoFile]]
    /\ req' = [req EXCEPT ![t].pc = "cleanup2"]
    /\ UNCHANGED poolVars
    /\ UNCHANGED << DB_VALUES, codecVars, ampVars, nameVars, dbVars >>

RemoveOutputFile(t) ==
    /\ req[t].pc = "cleanup2"
    /\ tmp' = [tmp EXCEPT ![req[t].output_path] =
                  [exists |-> FALSE, file |-> NoFile]]
    /\ req' = [req EXCEPT ![t].pc = "returned"]
    /\ UNCHANGED poolVars
    /\ UNCHANGED << DB_VALUES, codecVars, ampVars, nameVars, dbVars >>

NextConc ==
    \/ \E t \in Threads, r \in ConcRequests : MkstempInput(t, r[1], r[2])
    \/ \E t \in Threads : MkstempOutput(t)
    \/ \E t \in Threads : SaveUpload(t)
    \/ \E t \in Threads : OpenInput(t)
    \/ \E t \in Threads : ReadInput(t)
    \/ \E t \in Threads : TransformLocal(t)
    \/ \E t \in Threads : WriteOutput(t)
    \/ \E t \in Threads : ReadBack(t)
    \/ \E t \in Threads : RemoveInputFile(t)
    \/ \E t \in Threads : RemoveOutputFile(t)

SpecConc == Init /\ [][NextConc]_vars

\* C16: under every interleaving of two requests, without locks and with
\* the pattern never written, each request answers what it answers alone
C16_ConcurrentCallsAnswerAsAlone ==
    \A t \in Threads :
        req[t].pc \in {"cleanup", "cleanup2", "returned"}
        => LET alone == Alone(req[t].op, DB_VALUES, req[t].upload)
           IN  /\ req[t].status = alone.status
               /\ req[t].body = alone.body

\* both requests overlapped: each was between its mkstemp and its answer
\* while the other was, and both answered 200 with different files
C16_Witness ==
    /\ req[1].pc = "cleanup"
    /\ req[2].pc = "cleanup"
    /\ req[1].op = "insert"
    /\ req[2].op = "remove"
    /\ req[1].status = 200
    /\ req[2].status = 200
    /\ req[1].body # req[2].body
    /\ req[1].body.data # <<>>

\* ------------------------------------------------------------ database
\* the scripts run on a fresh database or on the deployed one
InitDb ==
    /\ DB_VALUES = ShippedDbValues
    /\ IdleCodec
    /\ IdleName
    /\ IdleConc
    /\ FreshDatabase \/ DeployedDatabase
    /\ IdleScripts
    /\ IdlePool
    /\ db = 0
    /\ bit_depth = 16
    /\ amplitude = -1

\* no script is running and no response is pending
ScriptsIdle ==
    /\ mig_pc \in {"idle", "done", "failed"}
    /\ nodes_response.status = 0

\* init_db.py: the unquoted names node, artist and collective are folded to
\* lower case; the three tables are created if absent, filled if empty, and
\* all of it is committed at once
InitDatabase ==
    /\ ScriptsIdle
    /\ relations' = relations \cup {"node", "artist", "collective"}
    /\ node' = IF node = {}
               THEN SerialRows(NodeNames, node_id_seq + 1, "")
               ELSE node
    /\ node_id_seq' = IF node = {} THEN node_id_seq + Len(NodeNames)
                      ELSE node_id_seq
    /\ artist' = IF artist = {} THEN 1..19 ELSE artist
    /\ collective' = IF collective = {} THEN 1..19 ELSE collective
    /\ UNCHANGED << Node_columns, Node_id_seq, Node, Collective,
                    ArtistCollective, mig_pc, collective_ids, nodes_response >>
    /\ UNCHANGED poolVars
    /\ UNCHANGED << DB_VALUES, codecVars, ampVars, nameVars, concVars >>
    /\ completed' = completed \cup {"init"}

\* migrate_database, Tasks 1 and 2: the two quoted tables are created
MigrateCreateTables ==
    /\ mig_pc = "idle"
    /\ nodes_response.status = 0
    /\ relations' = relations \cup {"ArtistCollective", "Collective"}
    /\ mig_pc' = "task3"
    /\ UNCHANGED << Node_columns, Node_id_seq, Node, Collective,
                    ArtistCollective, node_id_seq, node, artist, collective,
                    collective_ids, nodes_response >>
    /\ UNCHANGED poolVars
    /\ UNCHANGED << DB_VALUES, codecVars, ampVars, nameVars, concVars >>
    /\ UNCHANGED completed

\* Task 3: ALTER TABLE "Node" raises if there is no relation of that exact
\* name; the except clause rolls back and re-raises
MigrateAddNodeType ==
    /\ mig_pc = "task3"
    /\ IF "nodeType" \in Node_columns
       THEN /\ mig_pc' = "task4"
            /\ UNCHANGED << Node_columns, Node >>
       ELSE IF "Node" \notin relations
       THEN /\ mig_pc' = "failed"
            /\ UNCHANGED << Node_columns, Node >>
       ELSE /\ mig_pc' = "task4"
            /\ Node_columns' = Node_columns \cup {"nodeType"}
            /\ Node' = {IF r.id <= 19 THEN [r EXCEPT !.nodeType = "artist"]
                        ELSE r : r \in Node}
    /\ UNCHANGED << relations, Node_id_seq, Collective, ArtistCollective,
                    node_id_seq, node, artist, collective, collective_ids,
                    nodes_response >>
    /\ UNCHANGED poolVars
    /\ UNCHANGED << DB_VALUES, codecVars, ampVars, nameVars, concVars >>
    /\ UNCHANGED completed

\* the five names Task 4 inserts
CollectiveNames ==
    << "Harmonic Resonance", "Rhythmic Fusion", "Melodic Synthesis",
       "Acoustic Ensemble", "Sonic Wavelength" >>

\* SELECT id FROM "Node" WHERE "nodeType" = 'collective'
CollectiveNodeIds(rows) == {r.id : r \in {x \in rows : x.nodeType = "collective"}}

\* Task 4 without its count test: the five rows are appended on every run
MigrateAddCollectiveNodesUnguarded ==
    /\ mig_pc = "task4"
    /\ Node' = Node \cup SerialRows(CollectiveNames, Node_id_seq + 1,
                                    "collective")
    /\ Node_id_seq' = Node_id_seq + Len(CollectiveNames)
    /\ mig_pc' = "task5"
    /\ UNCHANGED << relations, Node_columns, Collective, ArtistCollective,
                    node_id_seq, node, artist, collective, collective_ids,
                    nodes_response >>
    /\ UNCHANGED poolVars
    /\ UNCHANGED << DB_VALUES, codecVars, ampVars, nameVars, concVars >>
    /\ UNCHANGED completed

\* Task 4: five collective rows are appended to "Node" unless five exist
MigrateAddCollectiveNodes ==
    /\ mig_pc = "task4"
    /\ IF Cardinality(CollectiveNodeIds(Node)) < 5
       THEN /\ Node' = Node \cup SerialRows(CollectiveNames, Node_id_seq + 1,
                                           "collective")
            /\ Node_id_seq' = Node_id_seq + Len(CollectiveNames)
       ELSE UNCHANGED << Node, Node_id_seq >>
    /\ mig_pc' = "task5"
    /\ UNCHANGED << relations, Node_columns, Collective, ArtistCollective,
                    node_id_seq, node, artist, collective, collective_ids,
                    nodes_response >>
    /\ UNCHANGED poolVars
    /\ UNCHANGED << DB_VALUES, codecVars, ampVars, nameVars, concVars >>
    /\ UNCHANGED completed

\* the elements of a set of integers in ascending order (ORDER BY id)
Ascending(S) ==
    [i \in 1..Cardinality(S) |->
        CHOOSE x \in S : Cardinality({y \in S : y <= x}) = i]

\* Task 5: the collective ids are read in ascending order and copied into
\* "Collective" if that table is empty
MigrateFillCollective ==
    /\ mig_pc = "task5"
    /\ collective_ids' = Ascending(CollectiveNodeIds(Node))
    /\ Collective' = IF Collective = {} THEN CollectiveNodeIds(Node)
                     ELSE Collective
    /\ mig_pc' = "task6"
    /\ UNCHANGED << relations, Node_columns, Node_id_seq, Node,
                    ArtistCollective, node_id_seq, node, artist, collective,
                    nodes_response >>
    /\ UNCHANGED poolVars
    /\ UNCHANGED << DB_VALUES, codecVars, ampVars, nameVars, concVars >>
    /\ UNCHANGED completed

\* random.shuffle is represented by the 19 rotations of 1..19, so that every
\* artist can come first
Rotate(s, k) == [i \in 1..Len(s) |-> s[((i + k - 1) % Len(s)) + 1]]

ShuffleOutcomes == {Rotate([i \in 1..19 |-> i], k) : k \in 0..18}

\* the n random.choice results out of three collectives are represented by
\* the non-decreasing sequences: the first a artists draw the first
\* collective, the next b - a the second, the others the third, which
\* realises every split of the n artists over the three collectives
ChoiceOutcomes(n) ==
    {[i \in 1..n |-> IF i <= c[1] THEN 1 ELSE IF i <= c[2] THEN 2 ELSE 3] :
        c \in {x \in (0..n) \X (0..n) : x[1] <= x[2]}}

\* [c for c in collective_ids if c not in [single_collective, empty_collective]]
AvailableCollectives(ids) == SubSeq(ids, 3, Len(ids))

\* the rows Task 6 inserts for one shuffle and one sequence of choices
Assignments(ids, artist_ids, choices) ==
    {<< artist_ids[1], ids[1] >>}
    \cup {<< artist_ids[i + 1], AvailableCollectives(ids)[choices[i]] >> :
             i \in 1..(Len(artist_ids) - 1)}

\* Task 6: if "ArtistCollective" is empty, the first shuffled artist goes
\* alone into the first collective, the second collective gets nobody and
\* every other artist goes to a collective drawn from the remaining ones
MigrateAssignArtists ==
    /\ mig_pc = "task6"
    /\ IF ArtistCollective = {}
       THEN \E artist_ids \in ShuffleOutcomes :
            \E choices \in ChoiceOutcomes(Len(artist_ids) - 1) :
                ArtistCollective' =
                    Assignments(collective_ids, artist_ids, choices)
       ELSE UNCHANGED ArtistCollective
    /\ mig_pc' = "done"
    /\ UNCHANGED << relations, Node_columns, Node_id_seq, Node, Collective,
                    node_id_seq, node, artist, collective, collective_ids,
                    nodes_response >>
    /\ UNCHANGED poolVars
    /\ UNCHANGED << DB_VALUES, codecVars, ampVars, nameVars, concVars >>
    /\ completed' = completed \cup {"migrate"}

\* the rows update_artist_collective_data adds
MultiAssignments == {<< 1, 22 >>, << 3, 24 >>, << 5, 23 >>, << 12, 23 >>}

\* update_artist_collective_data: returns early with fewer than five
\* collectives, else inserts its rows ON CONFLICT DO NOTHING
UpdateArtistCollectiveData ==
    /\ ScriptsIdle
    /\ "Collective" \in relations
    /\ IF Cardinality(Collective) < 5
       THEN UNCHANGED ArtistCollective
       ELSE ArtistCollective' = ArtistCollective \cup MultiAssignments
    /\ UNCHANGED << relations, Node_columns, Node_id_seq, Node, Collective,
                    node_id_seq, node, artist, collective, mig_pc,
                    collective_ids, nodes_response >>
    /\ UNCHANGED poolVars
    /\ UNCHANGED << DB_VALUES, codecVars, ampVars, nameVars, concVars >>
    /\ UNCHANGED completed

\* rows as the list of JSON objects get_nodes builds, ordered by id
NodesJson(rows) ==
    LET ids == Ascending({r.id : r \in rows})
    IN  [i \in 1..Len(ids) |->
            LET r == CHOOSE x \in rows : x.id = ids[i]
            IN  [id |-> r.id, name |-> r.name]]

\* GET /api/nodes between two script runs: every row of "Node", or 500 if
\* the query raises
GetNodes ==
    /\ ScriptsIdle
    /\ nodes_response' =
           IF "Node" \in relations
           THEN [status |-> 200, nodes |-> NodesJson(Node)]
           ELSE [status |-> 500, nodes |-> <<>>]
    /\ UNCHANGED << relations, Node_columns, Node_id_seq, Node, Collective,
                    ArtistCollective, node_id_seq, node, artist, collective,
                    mig_pc, collective_ids >>
    /\ UNCHANGED poolVars
    /\ UNCHANGED << DB_VALUES, codecVars, ampVars, nameVars, concVars >>
    /\ UNCHANGED completed

\* the response has been sent
ReturnNodes ==
    /\ nodes_response.status # 0
    /\ nodes_response' = [status |-> 0, nodes |-> <<>>]
    /\ UNCHANGED << relations, Node_columns, Node_id_seq, Node, Collective,
                    ArtistCollective, node_id_seq, node, artist, collective,
                    mig_pc, collective_ids >>
    /\ UNCHANGED poolVars
    /\ UNCHANGED << DB_VALUES, codecVars, ampVars, nameVars, concVars >>
    /\ UNCHANGED completed

NextDb ==
    \/ InitDatabase
    \/ MigrateCreateTables
    \/ MigrateAddNodeType
    \/ MigrateAddCollectiveNodes
    \/ MigrateFillCollective
    \/ MigrateAssignArtists
    \/ UpdateArtistCollectiveData
    \/ GetNodes
    \/ ReturnNodes

SpecDb == InitDb /\ [][NextDb]_vars

\* C19: once init_db and then migrate_database have run, GET /api/nodes
\* answers 200 with exactly 19 nodes, ids 1..19 ascending, names non-empty
C19_NodesAreTheNineteenArtists ==
    ("node" \in relations /\ mig_pc \in {"done", "failed"}
        /\ nodes_response.status # 0)
    => /\ nodes_response.status = 200
       /\ Len(nodes_response.nodes) = 19
       /\ \A i \in 1..Len(nodes_response.nodes) :
              /\ nodes_response.nodes[i].id = i
              /\ nodes_response.nodes[i].name # ""

\* artists a collective holds
ArtistsOf(c) == {ac[1] : ac \in {x \in ArtistCollective : x[2] = c}}

\* C20: once migrate_database has assigned the artists, before and after
\* update_artist_collective_data, exactly one collective is empty, exactly
\* one holds exactly one artist and each of the other three holds at least 3
C20_OneEmptyOneSingleThreeMany ==
    (mig_pc = "done" /\ ArtistCollective # {})
    => /\ Cardinality(Collective) = 5
       /\ Cardinality({c \in Collective : ArtistsOf(c) = {}}) = 1
       /\ Cardinality({c \in Collective : Cardinality(ArtistsOf(c)) = 1}) = 1
       /\ Cardinality({c \in Collective : Cardinality(ArtistsOf(c)) >= 3}) = 3

C22_Encode24InvertsDecode ==
    (ValidDescriptor(wav_in) /\ wav_in.width = 3
        /\ pc \in {"transform", "encode", "done"})
    => ToBytes(Flatten(audio_data), 3) = frames

\* the marker rows Insert builds from the shipped pattern
ShippedMarker(f) == WatermarkReshaped(ShippedDbValues, f.width, f.channels)

\* C23: Insert builds the marker from the pattern configured when it is
\* called: before and after a replacement by another 16-entry pattern
\* Insert gives L + 16 frames and Remove L frames less 16, every marker
\* frame carries the amplitude of the current pattern's entry, and so it
\* differs from the shipped marker wherever the two amplitudes differ
C23_MarkerFollowsCurrentPattern ==
    (ValidDescriptor(wav_in) /\ wav_in.channels \in {1, 2} /\ Transformed)
    => /\ (op = "insert")
          => /\ Len(out_data) = NFrames(wav_in) + Len(DB_VALUES)
             /\ \A i \in 1..Len(DB_VALUES) :
                  LET a == db_to_amplitude(DB_VALUES[i], wav_in.width * 8)
                      s == db_to_amplitude(ShippedDbValues[i],
                                           wav_in.width * 8)
                  IN  /\ \A ch \in 1..wav_in.channels : out_data[i][ch] = a
                      /\ a # s => out_data[i] # ShippedMarker(wav_in)[i]
       /\ (op = "insert" /\ Len(DB_VALUES) = 16)
          => Len(out_data) = NFrames(wav_in) + 16
       /\ (op = "remove" /\ Len(DB_VALUES) = 16)
          => Len(out_data) = NFrames(wav_in) - 16

\* an Insert after the pattern was replaced: the first marker frame carries
\* the amplitude of -99 dB, not that of the shipped -90 dB
C23_Witness ==
    /\ DB_VALUES = AlternateDbValues
    /\ op = "insert"
    /\ pc = "done"
    /\ wav_in.width = 3
    /\ wav_in.channels = 2
    /\ NFrames(wav_in) = 1
    /\ Len(out_data) = 17
    /\ out_data[1] = <<94, 94>>
    /\ ShippedMarker(wav_in)[1] = <<265, 265>>

\* read_wav_samples of the tests: the decoding add_watermark_samples uses
read_wav_samples(f) == Decode(ReadFrames(f), f.width, f.channels)

\* C24: with the shipped pattern, in every file Insert writes for a 16- or
\* 24-bit mono or stereo input, each channel of the first 16 frames read
\* back holds a value other than zero
C24_MarkerReadsBackNonZero ==
    (op = "insert" /\ Written /\ DB_VALUES = ShippedDbValues
        /\ wav_in.channels \in {1, 2})
    => LET output_data == read_wav_samples(wav_out)
       IN  /\ Len(output_data) >= 16
           /\ \A ch \in 1..wav_in.channels :
                  \E i \in 1..16 : output_data[i][ch] # 0

\* a 24-bit stereo file was written: the -90 dB amplitude 265 reads back as
\* 1 on both channels, the -99 dB amplitude 94 as 0
C24_Witness ==
    /\ op = "insert"
    /\ pc = "done"
    /\ wav_in.width = 3
    /\ wav_in.channels = 2
    /\ out_data[1] = <<265, 265>>
    /\ out_data[2] = <<94, 94>>
    /\ read_wav_samples(wav_out)[1] = <<1, 1>>
    /\ read_wav_samples(wav_out)[2] = <<0, 0>>

\* C25: the file Remove writes for a file Insert wrote has the payload bytes
\* of the original file, and the file Insert writes carries the original
\* payload bytes unchanged after the 16 marker frames, for 16- and 24-bit
\* mono and stereo input of any content
C25_PayloadBytesSurviveRoundTrip ==
    /\ (op = "insert" /\ Written /\ wav_in.channels \in {1, 2})
       => SliceFrom(wav_out.data, N * FrameSize(wav_in)) = wav_in.data
    /\ (op = "remove" /\ Written /\ source_wav # NoFile
           /\ source_wav.channels \in {1, 2})
       => wav_out.data = source_wav.data

\* ------------------------------------------------------------ one request
\* filenames of the posted part: none, a .wav name in two spellings, another
\* extension, and a name that only ends in the letters wav
PostedFilenames ==
    { <<>>, <<"a", ".", "w", "a", "v">>, <<"a", ".", "W", "A", "V">>,
      <<"a", ".", "m", "p", "3">>, <<"a", "w", "a", "v">> }

\* a request reaches /upload or /remove, with or without an 'audio' part
ReceiveRequest(t, kind, part, fn, f) ==
    /\ req[t].pc = "idle"
    /\ req' = [req EXCEPT ![t] =
                  [IdleRequest EXCEPT
                      !.pc = "check", !.op = kind, !.audio_part = part,
                      !.filename = IF part THEN fn ELSE <<>>,
                      !.upload = IF part THEN f ELSE NoFile]]
    /\ UNCHANGED poolVars
    /\ UNCHANGED << DB_VALUES, codecVars, ampVars, nameVars, dbVars, tmp >>

\* the three early returns in front of mkstemp
CheckRequestAcceptingAnyName(t) ==
    /\ req[t].pc = "check"
    /\ IF ~req[t].audio_part
       THEN req' = [req EXCEPT ![t].pc = "returned", ![t].status = 400]
       ELSE req' = [req EXCEPT ![t].pc = "accepted"]
    /\ UNCHANGED poolVars
    /\ UNCHANGED << DB_VALUES, codecVars, ampVars, nameVars, dbVars, tmp >>

CheckRequest(t) ==
    /\ req[t].pc = "check"
    /\ IF \/ ~req[t].audio_part
          \/ req[t].filename = <<>>
          \/ ~EndsWith(Lower(req[t].filename), DotWav)
       THEN req' = [req EXCEPT ![t].pc = "returned", ![t].status = 400]
       ELSE req' = [req EXCEPT ![t].pc = "accepted"]
    /\ UNCHANGED poolVars
    /\ UNCHANGED << DB_VALUES, codecVars, ampVars, nameVars, dbVars, tmp >>

\* the first mkstemp of an accepted request
MkstempAccepted(t) ==
    /\ req[t].pc = "accepted"
    /\ \E p \in FreePaths(tmp) :
        /\ tmp' = [tmp EXCEPT ![p] = [exists |-> TRUE, file |-> NoFile]]
        /\ req' = [req EXCEPT ![t].pc = "mkstemp", ![t].input_path = p]
    /\ UNCHANGED poolVars
    /\ UNCHANGED << DB_VALUES, codecVars, ampVars, nameVars, dbVars >>

\* os.remove(input_path) raises: the except clause around both removals
\* swallows the error and os.remove(output_path) is not reached
RemoveInputRaises(t) ==
    /\ req[t].pc = "cleanup"
    /\ req' = [req EXCEPT ![t].pc = "returned", ![t].raised = "input"]
    /\ UNCHANGED poolVars
    /\ UNCHANGED << DB_VALUES, codecVars, ampVars, nameVars, dbVars, tmp >>

\* os.remove(output_path) raises and the error is swallowed
RemoveOutputRaises(t) ==
    /\ req[t].pc = "cleanup2"
    /\ req' = [req EXCEPT ![t].pc = "returned", ![t].raised = "output"]
    /\ UNCHANGED poolVars
    /\ UNCHANGED << DB_VALUES, codecVars, ampVars, nameVars, dbVars, tmp >>

\* one handler call from the request to the return, os.remove failing or not
NextRequest ==
    \/ \E r \in ConcRequests, part \in BOOLEAN, fn \in PostedFilenames :
           ReceiveRequest(1, r[1], part, fn, r[2])
    \/ CheckRequest(1)
    \/ MkstempAccepted(1)
    \/ MkstempOutput(1)
    \/ SaveUpload(1)
    \/ OpenInput(1)
    \/ ReadInput(1)
    \/ TransformLocal(1)
    \/ WriteOutput(1)
    \/ ReadBack(1)
    \/ RemoveInputFile(1)
    \/ RemoveInputRaises(1)
    \/ RemoveOutputFile(1)
    \/ RemoveOutputRaises(1)

SpecRequest == Init /\ [][NextRequest]_vars

\* C26: when the handler has returned with 200 or 500, neither temporary
\* file of the request exists, except a file whose own removal raised
C26_TempFilesRemovedOnReturn ==
    (req[1].pc = "returned" /\ req[1].status \in {200, 500})
    => /\ req[1].raised # "input" => ~tmp[req[1].input_path].exists
       /\ req[1].raised # "output" => ~tmp[req[1].output_path].exists

\* a request is bad if it has no 'audio' part, an empty filename or a
\* filename whose last four characters are not .wav in any case
BadRequest(r) ==
    \/ ~r.audio_part
    \/ Len(r.filename) < 4
    \/ \E i \in 1..4 :
           LowerChar(r.filename[Len(r.filename) - 4 + i]) # DotWav[i]

\* C27: a bad request is answered 400 with no temporary file created and no
\* processing started, and only a bad request is answered 400
C27_BadRequestRejectedBeforeTempFiles ==
    /\ (BadRequest(req[1]) /\ req[1].pc \notin {"idle", "check"})
       => /\ req[1].pc = "returned"
          /\ req[1].status = 400
          /\ req[1].input_path = 0
          /\ req[1].output_path = 0
          /\ req[1].header = NoFile
          /\ req[1].audio_data = <<>>
          /\ req[1].out_data = <<>>
          /\ req[1].body = NoFile
          /\ \A p \in Paths : ~tmp[p].exists
    /\ req[1].status = 400 => BadRequest(req[1])

C27_Witness ==
    /\ req[1].pc = "returned"
    /\ req[1].status = 400
    /\ req[1].audio_part
    /\ req[1].filename = <<"a", ".", "m", "p", "3">>
    /\ req[1].upload # NoFile
    /\ \A p \in Paths : ~tmp[p].exists

\* ------------------------------------------------------------ connection pool
\* the connections a pool hands out are numbered inside the pool
NextConn(p) == << p, Cardinality(pools[p].idle \cup pools[p].used) + 1 >>

\* get_nodes / get_artists is entered: conn = None
StartRequest(t) ==
    /\ worker[t].pc = "idle"
    /\ worker' = [worker EXCEPT ![t] = [IdleWorker EXCEPT !.pc = "get_check",
                                                          !.call = "request"]]
    /\ UNCHANGED << connection_pool, pools >>
    /\ UNCHANGED << DB_VALUES, codecVars, ampVars, nameVars, concVars, dbVars >>

\* get_db_connection: if connection_pool is None
GetCheck(t) ==
    /\ worker[t].pc = "get_check"
    /\ worker' = [worker EXCEPT ![t].pc =
                     IF connection_pool = 0 THEN "init_check" ELSE "getconn"]
    /\ UNCHANGED << connection_pool, pools >>
    /\ UNCHANGED << DB_VALUES, codecVars, ampVars, nameVars, concVars, dbVars >>

\* init_connection_pool: if connection_pool is None
InitCheck(t) ==
    /\ worker[t].pc = "init_check"
    /\ worker' = [worker EXCEPT ![t].pc =
                     IF connection_pool = 0 THEN "init_create" ELSE "getconn"]
    /\ UNCHANGED << connection_pool, pools >>
    /\ UNCHANGED << DB_VALUES, codecVars, ampVars, nameVars, concVars, dbVars >>

\* connection_pool = SimpleConnectionPool(1, 10, ...): the pool is
\* constructed with one idle connection and bound to the global
InitCreate(t) ==
    /\ worker[t].pc = "init_create"
    /\ \E p \in PoolIds :
        /\ ~pools[p].made
        /\ \A q \in 1..(p - 1) : pools[q].made
        /\ pools' = [pools EXCEPT ![p] = [made |-> TRUE, closed |-> FALSE,
                                          idle |-> {<< p, 1 >>}, used |-> {}]]
        /\ connection_pool' = p
    /\ worker' = [worker EXCEPT ![t].pc = "getconn"]
    /\ UNCHANGED << DB_VALUES, codecVars, ampVars, nameVars, concVars, dbVars >>

\* connection_pool.getconn(): raises on None and on a closed pool, else
\* hands out an idle connection or a new one
GetConn(t) ==
    /\ worker[t].pc = "getconn"
    /\ IF connection_pool = 0 \/ pools[connection_pool].closed
       THEN /\ worker' = [worker EXCEPT ![t].pc = "finally",
                                        ![t].status = 500]
            /\ UNCHANGED pools
       ELSE LET p == connection_pool
            IN  \E c \in (IF pools[p].idle # {} THEN pools[p].idle
                          ELSE {NextConn(p)}) :
                    /\ pools' = [pools EXCEPT ![p].idle = @ \ {c},
                                              ![p].used = @ \cup {c}]
                    /\ worker' = [worker EXCEPT ![t].pc = "query",
                                                ![t].conn = c]
    /\ UNCHANGED connection_pool
    /\ UNCHANGED << DB_VALUES, codecVars, ampVars, nameVars, concVars, dbVars >>

\* the query returns rows or raises; the except clause answers 500
Query(t, ok) ==
    /\ worker[t].pc = "query"
    /\ worker' = [worker EXCEPT ![t].pc = "finally",
                                ![t].status = IF ok THEN 200 ELSE 500]
    /\ UNCHANGED << connection_pool, pools >>
    /\ UNCHANGED << DB_VALUES, codecVars, ampVars, nameVars, concVars, dbVars >>

\* finally: if conn: release_db_connection(conn), which tests the global
ReleaseCheck(t) ==
    /\ worker[t].pc = "finally"
    /\ worker' = [worker EXCEPT ![t].pc =
                     IF worker[t].conn = << 0, 0 >> \/ connection_pool = 0
                     THEN "ended" ELSE "putconn"]
    /\ UNCHANGED << connection_pool, pools >>
    /\ UNCHANGED << DB_VALUES, codecVars, ampVars, nameVars, concVars, dbVars >>

\* connection_pool.putconn(conn): raises on None, on a closed pool and on a
\* connection the pool did not hand out, else takes the connection back
PutConn(t) ==
    /\ worker[t].pc = "putconn"
    /\ LET p == connection_pool
           c == worker[t].conn
       IN  IF p = 0 \/ pools[p].closed \/ c \notin pools[p].used
           THEN /\ worker' = [worker EXCEPT ![t].pc = "ended",
                                            ![t].status = 500,
                                            ![t].puts = @ + 1]
                /\ UNCHANGED pools
           ELSE /\ pools' = [pools EXCEPT ![p].used = @ \ {c},
                                          ![p].idle = @ \cup {c}]
                /\ worker' = [worker EXCEPT ![t].pc = "ended",
                                            ![t].put_to = p,
                                            ![t].puts = @ + 1]
    /\ UNCHANGED connection_pool
    /\ UNCHANGED << DB_VALUES, codecVars, ampVars, nameVars, concVars, dbVars >>

\* the caller returns
EndCall(t) ==
    /\ worker[t].pc = "ended"
    /\ worker' = [worker EXCEPT ![t] = IdleWorker]
    /\ UNCHANGED << connection_pool, pools >>
    /\ UNCHANGED << DB_VALUES, codecVars, ampVars, nameVars, concVars, dbVars >>

\* requests served by the threads of the server
NextApi ==
    \/ \E t \in Threads : StartRequest(t)
    \/ \E t \in Threads : GetCheck(t)
    \/ \E t \in Threads : InitCheck(t)
    \/ \E t \in Threads : InitCreate(t)
    \/ \E t \in Threads : GetConn(t)
    \/ \E t \in Threads, ok \in BOOLEAN : Query(t, ok)
    \/ \E t \in Threads : ReleaseCheck(t)
    \/ \E t \in Threads : PutConn(t)
    \/ \E t \in Threads : EndCall(t)

SpecApi == Init /\ [][NextApi]_vars

\* connections checked out of any pool
CheckedOut == UNION {pools[p].used : p \in PoolIds}

\* connections held by a handler that has not yet released them
Held ==
    {worker[t].conn : t \in {u \in Threads :
                                worker[u].pc \in {"query", "finally", "putconn"}
                                /\ worker[u].conn # << 0, 0 >>}}

\* C28: a request that obtained a connection has given it back to the pool
\* it came from by exactly one putconn when the handler ends, a request
\* that obtained none calls no putconn, and the connections checked out
\* are those of the running handlers, so none once all have ended
C28_ConnectionReleasedExactlyOnce ==
    /\ \A t \in Threads :
          worker[t].pc = "ended"
          => IF worker[t].conn = << 0, 0 >>
             THEN worker[t].puts = 0
             ELSE /\ worker[t].puts = 1
                  /\ worker[t].put_to = worker[t].conn[1]
    /\ CheckedOut = Held

\* close_all_connections is entered
StartClose(t) ==
    /\ worker[t].pc = "idle"
    /\ worker' = [worker EXCEPT ![t] = [IdleWorker EXCEPT !.pc = "close_check",
                                                          !.call = "close"]]
    /\ UNCHANGED << connection_pool, pools >>
    /\ UNCHANGED << DB_VALUES, codecVars, ampVars, nameVars, concVars, dbVars >>

\* if connection_pool:
CloseCheck(t) ==
    /\ worker[t].pc = "close_check"
    /\ worker' = [worker EXCEPT ![t].pc =
                     IF connection_pool = 0 THEN "ended" ELSE "closeall"]
    /\ UNCHANGED << connection_pool, pools >>
    /\ UNCHANGED << DB_VALUES, codecVars, ampVars, nameVars, concVars, dbVars >>

\* connection_pool.closeall(): raises on None and on a closed pool, else
\* closes the pool with all its connections
CloseAll(t) ==
    /\ worker[t].pc = "closeall"
    /\ IF connection_pool = 0 \/ pools[connection_pool].closed
       THEN /\ worker' = [worker EXCEPT ![t].pc = "ended", ![t].status = 500]
            /\ UNCHANGED pools
       ELSE /\ pools' = [pools EXCEPT ![connection_pool].closed = TRUE]
            /\ worker' = [worker EXCEPT ![t].pc = "close_assign"]
    /\ UNCHANGED connection_pool
    /\ UNCHANGED << DB_VALUES, codecVars, ampVars, nameVars, concVars, dbVars >>

\* connection_pool = None
CloseAssign(t) ==
    /\ worker[t].pc = "close_assign"
    /\ connection_pool' = 0
    /\ worker' = [worker EXCEPT ![t].pc = "ended"]
    /\ UNCHANGED pools
    /\ UNCHANGED << DB_VALUES, codecVars, ampVars, nameVars, concVars, dbVars >>

\* threads that get and release connections and close the pool
NextPool ==
    \/ \E t \in Threads : StartRequest(t)
    \/ \E t \in Threads : GetCheck(t)
    \/ \E t \in Threads : InitCheck(t)
    \/ \E t \in Threads : InitCreate(t)
    \/ \E t \in Threads : GetConn(t)
    \/ \E t \in Threads, ok \in BOOLEAN : Query(t, ok)
    \/ \E t \in Threads : ReleaseCheck(t)
    \/ \E t \in Threads : PutConn(t)
    \/ \E t \in Threads : StartClose(t)
    \/ \E t \in Threads : CloseCheck(t)
    \/ \E t \in Threads : CloseAll(t)
    \/ \E t \in Threads : CloseAssign(t)
    \/ \E t \in Threads : EndCall(t)

SpecPool == Init /\ [][NextPool]_vars

\* C29: under every interleaving at most one constructed pool is not
\* closed, and a connection that has been released was taken back by the
\* pool that handed it out
C29_OnePoolAndReleaseToSamePool ==
    /\ Cardinality({p \in PoolIds : pools[p].made /\ ~pools[p].closed}) <= 1
    /\ \A t \in Threads :
          (worker[t].pc = "ended" /\ worker[t].conn # << 0, 0 >>)
          => worker[t].put_to = worker[t].conn[1]

\* migrate_database is started again after a run that ended or raised: Tasks
\* 1 and 2 create the two quoted tables only IF NOT EXISTS
MigrateAgain ==
    /\ mig_pc \in {"done", "failed"}
    /\ nodes_response.status = 0
    /\ relations' = relations \cup {"ArtistCollective", "Collective"}
    /\ mig_pc' = "task3"
    /\ UNCHANGED << Node_columns, Node_id_seq, Node, Collective,
                    ArtistCollective, node_id_seq, node, artist, collective,
                    collective_ids, nodes_response >>
    /\ UNCHANGED poolVars
    /\ UNCHANGED << DB_VALUES, codecVars, ampVars, nameVars, concVars >>
    /\ UNCHANGED completed

\* a statement raises psycopg2.Error between two commits: the except clause
\* rolls the open transaction back and re-raises, so the run ends with what
\* the tasks before it committed
MigrateRaises ==
    /\ mig_pc \in {"task3", "task4", "task5", "task6"}
    /\ mig_pc' = "failed"
    /\ UNCHANGED << relations, Node_columns, Node_id_seq, Node, Collective,
                    ArtistCollective, node_id_seq, node, artist, collective,
                    collective_ids, nodes_response >>
    /\ UNCHANGED poolVars
    /\ UNCHANGED << DB_VALUES, codecVars, ampVars, nameVars, concVars >>
    /\ UNCHANGED completed

NextRerun ==
    \/ InitDatabase
    \/ MigrateCreateTables
    \/ MigrateAddNodeType
    \/ MigrateAddCollectiveNodes
    \/ MigrateFillCollective
    \/ MigrateAssignArtists
    \/ MigrateAgain
    \/ MigrateRaises
    \/ UpdateArtistCollectiveData

SpecRerun == InitDb /\ [][NextRerun]_vars

\* no table of either schema changes in the step
TablesUnchanged ==
    UNCHANGED << relations, Node_columns, Node_id_seq, Node, Collective,
                 ArtistCollective, node_id_seq, node, artist, collective >>

\* no two rows of a node table carry the same name, there are at most five
\* collective nodes, "Collective" holds only their ids, and apart from the
\* rows update_artist_collective_data adds no artist is assigned twice
NoDuplicates ==
    /\ \A r1 \in Node : \A r2 \in Node : r1.name = r2.name => r1 = r2
    /\ \A r1 \in node : \A r2 \in node : r1.name = r2.name => r1 = r2
    /\ Cardinality(CollectiveNodeIds(Node)) <= 5
    /\ Collective \subseteq CollectiveNodeIds(Node)
    /\ \A a \in 1..19 :
           Cardinality({p \in ArtistCollective \ MultiAssignments :
                            p[1] = a}) <= 1

\* C30: once migrate_database has run to its end, every step of a later run
\* of it leaves all tables as they are; once init_database has run, running
\* it again leaves all tables as they are; and whatever runs came before,
\* raised or not, no node name, collective or assignment exists twice
C30_ScriptsAreIdempotent ==
    /\ [][("migrate" \in completed /\ mig_pc' # mig_pc) => TablesUnchanged]_vars
    /\ [][("init" \in completed /\ InitDatabase) => TablesUnchanged]_vars
    /\ []NoDuplicates

\* both scripts have run to their end and a further run of migrate_database
\* has passed Tasks 1 to 5
C30_Witness ==
    /\ completed = {"init", "migrate"}
    /\ mig_pc = "task6"
    /\ Cardinality(ArtistCollective) >= 19

====
